---- MODULE Spec2Model ----
(***************************************************************************)
(* Model of robocop/reports.py: the report classes that consume linter     *)
(* messages (add_message), accept options (configure) and produce a        *)
(* summary (get_report).                                                   *)
(*                                                                         *)
(* Python strings are sequences of one-character strings, so that split,   *)
(* upper, int(), len() and the f-string formatting are computed, not       *)
(* assumed.  A dict is a sequence of [k, v] records in insertion order     *)
(* (the iteration order of a Python dict).                                 *)
(*                                                                         *)
(* Each report class has its own specification (SpecById, SpecBySeverity,  *)
(* SpecReturnStatus, SpecJson, SpecFileStats); SpecGate explores the       *)
(* values of the quality_gate option, SpecRunner all reports side by side. *)
(* The variables call, added, get_report_calls, expected_gate and skipped  *)
(* record what was called; the reports never read them.                    *)
(***************************************************************************)
EXTENDS Integers, Sequences, FiniteSets, TLC

(***************************************************************************)
(* Bounds of the model.                                                    *)
(***************************************************************************)
\* Longest sequence of messages handed to a report that keeps a log.
MaxMsgs == 4
\* Single add_message calls on the return_status report, besides one run.
MaxSingles == 2
\* Length of a run of consecutive add_message calls of one severity.
Burst == 300
\* get_report calls on the return_status report.
MaxReports == 2
\* Pairs in a quality_gate value.
MaxPairs == 3
\* Largest processed-file count the runner sets.
MaxFiles == 3
\* Milliseconds the clock advances at most.
MaxClock == 1
\* Messages the runner fans out to all reports.
MaxFanOut == 1

(***************************************************************************)
(* Generic helpers: strings, numbers, dicts.                               *)
(***************************************************************************)
Min(a, b) == IF a < b THEN a ELSE b

Max(a, b) == IF a < b THEN b ELSE a

Digit(d) == <<"0", "1", "2", "3", "4", "5", "6", "7", "8", "9">>[d + 1]

\* str(n) for n >= 0.
RECURSIVE NatStr(_)
NatStr(n) == IF n < 10 THEN <<Digit(n)>> ELSE NatStr(n \div 10) \o <<Digit(n % 10)>>

\* str(n) / f"{n}" of a Python int.
IntStr(n) == IF n < 0 THEN <<"-">> \o NatStr(-n) ELSE NatStr(n)

\* " " * n
RECURSIVE Spaces(_)
Spaces(n) == IF n <= 0 THEN <<>> ELSE <<" ">> \o Spaces(n - 1)

\* sep.join(parts)
RECURSIVE Join(_, _)
Join(parts, sep) ==
    IF parts = <<>> THEN <<>>
    ELSE IF Len(parts) = 1 THEN parts[1]
    ELSE parts[1] \o sep \o Join(Tail(parts), sep)

\* sum(d.values())
RECURSIVE DictSum(_)
DictSum(d) == IF d = <<>> THEN 0 ELSE d[1].v + DictSum(Tail(d))

DictKeys(d) == {d[i].k : i \in 1..Len(d)}

\* d.get(key, default)
DictGet(d, key, default) ==
    IF key \in DictKeys(d)
    THEN d[CHOOSE i \in 1..Len(d) : d[i].k = key].v
    ELSE default

\* A faulty d[key] += n: the count is overwritten, not added to.
DictAddBroken(d, key, n) ==
    IF key \in DictKeys(d)
    THEN [i \in 1..Len(d) |-> IF d[i].k = key THEN [k |-> key, v |-> n] ELSE d[i]]
    ELSE Append(d, [k |-> key, v |-> n])

\* d[key] += n on a defaultdict(int): a new key is inserted last.
DictAdd(d, key, n) ==
    IF key \in DictKeys(d)
    THEN [i \in 1..Len(d) |-> IF d[i].k = key THEN [k |-> key, v |-> d[i].v + n] ELSE d[i]]
    ELSE Append(d, [k |-> key, v |-> n])

(***************************************************************************)
(* robocop.rules: severities and messages (consumed by the reports).       *)
(***************************************************************************)
\* RuleSeverity members, named by their .name.
Severities == {"ERROR", "WARNING", "INFO"}

\* severity.value
SeverityValue(sev) ==
    CASE sev = "ERROR" -> "E"
      [] sev = "WARNING" -> "W"
      [] sev = "INFO" -> "I"

\* severity.name as text
SeverityName(sev) ==
    CASE sev = "ERROR" -> <<"E", "R", "R", "O", "R">>
      [] sev = "WARNING" -> <<"W", "A", "R", "N", "I", "N", "G">>
      [] sev = "INFO" -> <<"I", "N", "F", "O">>

\* The messages the scan may produce: get_fullname(), severity, source.
Messages ==
    { [fullname |-> <<"W", "1">>, severity |-> "WARNING", source |-> "a.robot"],
      [fullname |-> <<"W", "1">>, severity |-> "WARNING", source |-> "b.robot"],
      [fullname |-> <<"E", "2", "2">>, severity |-> "ERROR", source |-> "a.robot"],
      [fullname |-> <<"I", "3">>, severity |-> "INFO", source |-> "b.robot"] }

\* message.to_json()
to_json(m) ==
    [source |-> m.source, severity |-> SeverityValue(m.severity), rule |-> m.fullname]

(***************************************************************************)
(* State.                                                                  *)
(***************************************************************************)
VARIABLES
    message_counter,    \* RulesByIdReport.message_counter
    severity_counter,   \* RulesBySeverityReport.severity_counter
    return_status,      \* ReturnStatusReport.return_status
    counter,            \* ReturnStatusReport.counter.severity_counter
    quality_gate,       \* ReturnStatusReport.quality_gate
    start_time,         \* TimeTakenReport.start_time (ms)
    timer,              \* the value timer() returns now (ms)
    issues,             \* JsonReport.issues
    files_count,        \* FileStatsReport.files_count
    files_with_issues,  \* FileStatsReport.files_with_issues
    call,               \* the last call made on a report and its outcome
    added,              \* history: the messages passed to add_message, in order
    get_report_calls,   \* history: get_report calls made on return_status
    expected_gate,      \* history: the quality gate the configured pairs denote
    skipped             \* history: the pairs of the last configured value that denote nothing

vars == <<message_counter, severity_counter, return_status, counter, quality_gate,
          start_time, timer, issues, files_count, files_with_issues,
          call, added, get_report_calls, expected_gate, skipped>>

\* The accumulated state of each report.
by_id_state == <<message_counter>>
by_severity_state == <<severity_counter>>
return_status_state == <<return_status, counter, quality_gate>>
timer_state == <<start_time>>
json_state == <<issues>>
file_stats_state == <<files_count, files_with_issues>>

history == <<added, get_report_calls, expected_gate, skipped>>

NoText == <<>>

\* A value a call returned: None, or a str.
None == [none |-> TRUE, text |-> NoText]
Str(t) == [none |-> FALSE, text |-> t]

NoError == [type |-> "", param |-> "", report |-> ""]

Call(report, op, name, ret, exc) ==
    [report |-> report, op |-> op, name |-> name, ret |-> ret, exc |-> exc]

\* The default quality gate.
DefaultGate == [c \in {"E", "W", "I"} |-> IF c = "I" THEN -1 ELSE 0]

Init ==
    /\ message_counter = <<>>
    /\ severity_counter = <<>>
    /\ return_status = 0
    /\ counter = <<>>
    /\ quality_gate = DefaultGate
    /\ start_time = 0
    /\ timer = 0
    /\ issues = <<>>
    /\ files_count = 0
    /\ files_with_issues = {}
    /\ call = Call("", "__init__", "", None, NoError)
    /\ added = <<>>
    /\ get_report_calls = 0
    /\ expected_gate = DefaultGate
    /\ skipped = 0

(***************************************************************************)
(* Report.configure: the base class rejects every option.                  *)
(***************************************************************************)
ReportNames ==
    {"rules_by_id", "rules_by_error_type", "return_status", "scan_timer",
     "json_report", "file_stats", "version"}

\* The option names tried on configure.
OptionNames == {"quality_gate", "quality_gates", "threshold"}

\* The ConfigGeneralError raised by Report.configure.
ConfigGeneralError(name, report) ==
    [type |-> "ConfigGeneralError", param |-> name, report |-> report]

\* configure on a report that does not override it.
Report_configure(report, name) ==
    /\ report \in ReportNames \ {"return_status"}
    /\ call' = Call(report, "configure", name, None, ConfigGeneralError(name, report))
    /\ UNCHANGED <<by_id_state, by_severity_state, return_status_state, timer_state,
                   timer, json_state, file_stats_state, history>>

(***************************************************************************)
(* RulesByIdReport                                                         *)
(***************************************************************************)
\* sorted(items, key=itemgetter(1), reverse=True): stable, descending count.
RECURSIVE InsertByCount(_, _)
InsertByCount(sorted, item) ==
    IF sorted = <<>> THEN <<item>>
    ELSE IF Head(sorted).v >= item.v THEN <<Head(sorted)>> \o InsertByCount(Tail(sorted), item)
    ELSE <<item>> \o sorted

RECURSIVE SortedByCount(_)
SortedByCount(items) ==
    IF items = <<>> THEN <<>>
    ELSE InsertByCount(SortedByCount(SubSeq(items, 1, Len(items) - 1)), items[Len(items)])

RECURSIVE LongestName(_)
LongestName(items) ==
    IF items = <<>> THEN 0 ELSE Max(Len(items[1].k), LongestName(Tail(items)))

\* The text get_report returns.
RulesById_text(mc) ==
    LET ordered == SortedByCount(mc)
        head == <<"\n", "I", "s", "s", "u", "e", "s", " ", "b", "y", " ", "I", "D", ":", "\n">>
        longest_name == LongestName(ordered)
        line(i) == ordered[i].k \o Spaces(longest_name - Len(ordered[i].k))
                   \o <<" ", ":", " ">> \o IntStr(ordered[i].v)
    IN  IF ordered = <<>>
        THEN head \o <<"N", "o", " ", "i", "s", "s", "u", "e", "s", " ", "f", "o", "u", "n", "d", ".">>
        ELSE head \o Join([i \in 1..Len(ordered) |-> line(i)], <<"\n">>)

RulesById_add_message(m) ==
    /\ Len(added) < MaxMsgs
    /\ message_counter' = DictAdd(message_counter, m.fullname, 1)
    /\ call' = Call("rules_by_id", "add_message", "", None, NoError)
    /\ added' = Append(added, m)
    /\ UNCHANGED <<by_severity_state, return_status_state, timer_state, timer,
                   json_state, file_stats_state, get_report_calls, expected_gate, skipped>>

RulesById_get_report ==
    /\ call' = Call("rules_by_id", "get_report", "", Str(RulesById_text(message_counter)), NoError)
    /\ UNCHANGED <<by_id_state, by_severity_state, return_status_state, timer_state,
                   timer, json_state, file_stats_state, history>>

NextById ==
    \/ \E m \in Messages : RulesById_add_message(m)
    \/ RulesById_get_report
    \/ \E name \in OptionNames : Report_configure("rules_by_id", name)

SpecById == Init /\ [][NextById]_vars

(***************************************************************************)
(* RulesBySeverityReport                                                   *)
(***************************************************************************)
\* f"{count} {severity.name}{plural}"
WarningType(item) ==
    IntStr(item.v) \o <<" ">> \o SeverityName(item.k)
    \o (IF item.v = 1 THEN <<>> ELSE <<"s">>)

\* A faulty get_report text: "Found 1 issues: " for a single issue.
RulesBySeverity_text_NoSingular(sc) ==
    LET issues_count == DictSum(sc)
    IN  IF issues_count = 0
        THEN <<"\n", "F", "o", "u", "n", "d", " ", "0", " ", "i", "s", "s", "u", "e", "s", ".">>
        ELSE <<"\n", "F", "o", "u", "n", "d", " ">> \o IntStr(issues_count)
             \o <<" ", "i", "s", "s", "u", "e", "s", ":", " ">>
             \o Join([i \in 1..Len(sc) |-> WarningType(sc[i])], <<",", " ">>)
             \o <<".">>

\* The text get_report returns.
RulesBySeverity_text(sc) ==
    LET issues_count == DictSum(sc)
        report == IF issues_count = 1
                  THEN <<"\n", "F", "o", "u", "n", "d", " ", "1", " ", "i", "s", "s", "u", "e", ":", " ">>
                  ELSE <<"\n", "F", "o", "u", "n", "d", " ">> \o IntStr(issues_count)
                       \o <<" ", "i", "s", "s", "u", "e", "s", ":", " ">>
    IN  IF issues_count = 0
        THEN <<"\n", "F", "o", "u", "n", "d", " ", "0", " ", "i", "s", "s", "u", "e", "s", ".">>
        ELSE report
             \o Join([i \in 1..Len(sc) |-> WarningType(sc[i])], <<",", " ">>)
             \o <<".">>

RulesBySeverity_add_message(m) ==
    /\ Len(added) < MaxMsgs
    /\ severity_counter' = DictAdd(severity_counter, m.severity, 1)
    /\ call' = Call("rules_by_error_type", "add_message", "", None, NoError)
    /\ added' = Append(added, m)
    /\ UNCHANGED <<by_id_state, return_status_state, timer_state, timer,
                   json_state, file_stats_state, get_report_calls, expected_gate, skipped>>

RulesBySeverity_get_report ==
    /\ call' = Call("rules_by_error_type", "get_report", "",
                    Str(RulesBySeverity_text(severity_counter)), NoError)
    /\ UNCHANGED <<by_id_state, by_severity_state, return_status_state, timer_state,
                   timer, json_state, file_stats_state, history>>

NextBySeverity ==
    \/ \E m \in Messages : RulesBySeverity_add_message(m)
    \/ RulesBySeverity_get_report
    \/ \E name \in OptionNames : Report_configure("rules_by_error_type", name)

SpecBySeverity == Init /\ [][NextBySeverity]_vars

(***************************************************************************)
(* JsonReport                                                              *)
(***************************************************************************)
\* A faulty append: an issue already present is not added again.
JsonAppendDedup(iss, m) ==
    IF \E i \in 1..Len(iss) : iss[i] = to_json(m) THEN iss ELSE Append(iss, to_json(m))

\* self.issues.append(message.to_json())
JsonAppend(iss, m) == Append(iss, to_json(m))

Json_add_message(m) ==
    /\ Len(added) < MaxMsgs
    /\ issues' = JsonAppend(issues, m)
    /\ call' = Call("json_report", "add_message", "", None, NoError)
    /\ added' = Append(added, m)
    /\ UNCHANGED <<by_id_state, by_severity_state, return_status_state, timer_state,
                   timer, file_stats_state, get_report_calls, expected_gate, skipped>>

Json_get_report ==
    /\ call' = Call("json_report", "get_report", "", None, NoError)
    /\ UNCHANGED <<by_id_state, by_severity_state, return_status_state, timer_state,
                   timer, json_state, file_stats_state, history>>

NextJson ==
    \/ \E m \in Messages : Json_add_message(m)
    \/ Json_get_report
    \/ \E name \in OptionNames : Report_configure("json_report", name)

SpecJson == Init /\ [][NextJson]_vars

(***************************************************************************)
(* FileStatsReport                                                         *)
(***************************************************************************)
\* A faulty get_report text: one plural for both counts.
FileStats_text_SharedPlural(fc, fwi) ==
    LET plural_files == IF fc > 1 THEN <<"s">> ELSE <<>>
        processed == <<"\n", "P", "r", "o", "c", "e", "s", "s", "e", "d", " ">> \o IntStr(fc)
                     \o <<" ", "f", "i", "l", "e">> \o plural_files
    IN  IF fc = 0
        THEN <<"\n", "N", "o", " ", "f", "i", "l", "e", "s", " ", "w", "e", "r", "e", " ",
               "p", "r", "o", "c", "e", "s", "s", "e", "d", ".">>
        ELSE IF fwi = {}
        THEN processed \o <<" ", "b", "u", "t", " ", "n", "o", " ", "i", "s", "s", "u", "e", "s", " ",
                            "w", "e", "r", "e", " ", "f", "o", "u", "n", "d", ".">>
        ELSE processed \o <<" ", "f", "r", "o", "m", " ", "w", "h", "i", "c", "h", " ">>
             \o IntStr(Cardinality(fwi)) \o <<" ", "f", "i", "l", "e">> \o plural_files
             \o <<" ", "c", "o", "n", "t", "a", "i", "n", "e", "d", " ", "i", "s", "s", "u", "e", "s", ".">>

\* The text get_report returns.
FileStats_text(fc, fwi) ==
    LET plural_files == IF fc > 1 THEN <<"s">> ELSE <<>>
        plural_files_with_issues == IF Cardinality(fwi) = 1 THEN <<>> ELSE <<"s">>
        processed == <<"\n", "P", "r", "o", "c", "e", "s", "s", "e", "d", " ">> \o IntStr(fc)
                     \o <<" ", "f", "i", "l", "e">> \o plural_files
    IN  IF fc = 0
        THEN <<"\n", "N", "o", " ", "f", "i", "l", "e", "s", " ", "w", "e", "r", "e", " ",
               "p", "r", "o", "c", "e", "s", "s", "e", "d", ".">>
        ELSE IF fwi = {}
        THEN processed \o <<" ", "b", "u", "t", " ", "n", "o", " ", "i", "s", "s", "u", "e", "s", " ",
                            "w", "e", "r", "e", " ", "f", "o", "u", "n", "d", ".">>
        ELSE processed \o <<" ", "f", "r", "o", "m", " ", "w", "h", "i", "c", "h", " ">>
             \o IntStr(Cardinality(fwi)) \o <<" ", "f", "i", "l", "e">> \o plural_files_with_issues
             \o <<" ", "c", "o", "n", "t", "a", "i", "n", "e", "d", " ", "i", "s", "s", "u", "e", "s", ".">>

FileStats_add_message(m) ==
    /\ Len(added) < MaxMsgs
    /\ files_with_issues' = files_with_issues \cup {m.source}
    /\ call' = Call("file_stats", "add_message", "", None, NoError)
    /\ added' = Append(added, m)
    /\ UNCHANGED <<by_id_state, by_severity_state, return_status_state, timer_state,
                   timer, json_state, files_count, get_report_calls, expected_gate, skipped>>

\* The runner assigns files_count, the number of files it processed.
FileStats_set_files_count(n) ==
    /\ files_count' = n
    /\ call' = Call("file_stats", "files_count", "", None, NoError)
    /\ UNCHANGED <<by_id_state, by_severity_state, return_status_state, timer_state,
                   timer, json_state, files_with_issues, history>>

FileStats_get_report ==
    /\ call' = Call("file_stats", "get_report", "",
                    Str(FileStats_text(files_count, files_with_issues)), NoError)
    /\ UNCHANGED <<by_id_state, by_severity_state, return_status_state, timer_state,
                   timer, json_state, file_stats_state, history>>

NextFileStats ==
    \/ \E m \in Messages : FileStats_add_message(m)
    \/ \E n \in 0..MaxFiles : FileStats_set_files_count(n)
    \/ FileStats_get_report
    \/ \E name \in OptionNames : Report_configure("file_stats", name)

SpecFileStats == Init /\ [][NextFileStats]_vars

(***************************************************************************)
(* ReturnStatusReport.configure: parsing of the quality gate.              *)
(***************************************************************************)
\* Index of the first occurrence of character c in s, 0 when there is none.
FirstIndex(s, c) ==
    IF \E i \in 1..Len(s) : s[i] = c
    THEN CHOOSE i \in 1..Len(s) : s[i] = c /\ \A j \in 1..(i - 1) : s[j] # c
    ELSE 0

\* s.split(sep) for a one-character separator.
RECURSIVE Split(_, _)
Split(s, sep) ==
    LET i == FirstIndex(s, sep)
    IN  IF i = 0 THEN <<s>>
        ELSE <<SubSeq(s, 1, i - 1)>> \o Split(SubSeq(s, i + 1, Len(s)), sep)

\* val.split("=", maxsplit=1)
SplitOnce(val) ==
    LET i == FirstIndex(val, "=")
    IN  IF i = 0 THEN <<val>>
        ELSE <<SubSeq(val, 1, i - 1), SubSeq(val, i + 1, Len(val))>>

UpperChar(c) ==
    CASE c = "e" -> "E" [] c = "w" -> "W" [] c = "i" -> "I" [] c = "x" -> "X"
      [] c = "a" -> "A" [] c = "b" -> "B" [] c = "c" -> "C"
      [] OTHER -> c

\* name.upper()
Upper(s) == [i \in 1..Len(s) |-> UpperChar(s[i])]

Digits == {"0", "1", "2", "3", "4", "5", "6", "7", "8", "9"}

DigitValue(c) == CHOOSE d \in 0..9 : Digit(d) = c

\* s.strip() of blanks
RECURSIVE Strip(_)
Strip(s) ==
    IF s = <<>> THEN s
    ELSE IF Head(s) = " " THEN Strip(Tail(s))
    ELSE IF s[Len(s)] = " " THEN Strip(SubSeq(s, 1, Len(s) - 1))
    ELSE s

\* The text int() is given, without blanks and sign.
Unsigned(s) ==
    LET t == Strip(s)
    IN  IF t # <<>> /\ t[1] \in {"-", "+"} THEN Tail(t) ELSE t

\* int(s) does not raise ValueError: blanks around, an optional sign and at
\* least one digit (the texts tried hold no "_" and no other white space).
IsInt(s) ==
    LET u == Unsigned(s)
    IN  u # <<>> /\ \A i \in 1..Len(u) : u[i] \in Digits

RECURSIVE DigitsValue(_)
DigitsValue(u) ==
    IF u = <<>> THEN 0
    ELSE 10 * DigitsValue(SubSeq(u, 1, Len(u) - 1)) + DigitValue(u[Len(u)])

\* int(s), for IsInt(s)
ToInt(s) ==
    LET t == Strip(s)
    IN  IF t[1] = "-" THEN -DigitsValue(Unsigned(s)) ELSE DigitsValue(Unsigned(s))

\* A faulty round of the loop of configure: the code is not upper-cased.
ApplyPairCaseSensitive(gate, val) ==
    LET parts == SplitOnce(val)
    IN  IF Len(parts) = 2 /\ IsInt(parts[2])
           /\ Len(parts[1]) = 1 /\ parts[1][1] \in DOMAIN gate
        THEN [gate EXCEPT ![parts[1][1]] = ToInt(parts[2])]
        ELSE gate

\* One round of the loop of configure on val: the ValueError of the unpacking
\* or of int() is caught and the pair skipped.
ApplyPair(gate, val) ==
    LET parts == SplitOnce(val)
    IN  IF Len(parts) # 2 THEN gate
        ELSE LET name == Upper(parts[1])
                 count == parts[2]
             IN  IF Len(name) = 1 /\ name[1] \in DOMAIN gate
                 THEN IF IsInt(count) THEN [gate EXCEPT ![name[1]] = ToInt(count)] ELSE gate
                 ELSE gate

RECURSIVE ApplyPairs(_, _)
ApplyPairs(gate, vals) ==
    IF vals = <<>> THEN gate ELSE ApplyPairs(ApplyPair(gate, vals[1]), Tail(vals))

\* The quality gate after configure(name, value) for a quality-gate option.
ReturnStatus_parse(gate, value) == ApplyPairs(gate, Split(value, ":"))

\* A faulty test of the option name: every name is taken for quality_gate.
AnyOption(name) == TRUE

\* name in ["quality_gate", "quality_gates"]
IsGateOption(name) == name \in {"quality_gate", "quality_gates"}

\* The pairs a quality_gate value is made of.
PairTexts ==
    << <<"e", "=", "1">>,
       <<"w", "=", "a", "b", "c">>,
       <<"w", "=", "2", "9", "0">>,
       <<"W", "=", "-", "2">>,
       <<"i", "=", "0">>,
       <<"x", "=", "2">>,
       <<"e">> >>

\* More pairs, tried as a value of one pair.
OddTexts ==
    << <<>>,
       <<"w", "=", "1", "=", "2">>,
       <<"W", "=">>,
       <<"=", "3">>,
       <<"e", "=", "-">>,
       <<"I", "=", "-", "1">>,
       <<"E", "W", "=", "4">>,
       <<"W", " ", "=", "4">>,
       <<"I", "=", "+", "3">>,
       <<"E", "=", "5">> >>

AllTexts == PairTexts \o OddTexts

\* What each pair of AllTexts denotes: the severity code it sets and the
\* threshold, or no code for a malformed pair.
PairMeaning ==
    << [code |-> "E", n |-> 1],
       [code |-> "", n |-> 0],
       [code |-> "W", n |-> 290],
       [code |-> "W", n |-> -2],
       [code |-> "I", n |-> 0],
       [code |-> "", n |-> 0],
       [code |-> "", n |-> 0],
       [code |-> "", n |-> 0],
       [code |-> "", n |-> 0],
       [code |-> "", n |-> 0],
       [code |-> "", n |-> 0],
       [code |-> "", n |-> 0],
       [code |-> "I", n |-> -1],
       [code |-> "", n |-> 0],
       [code |-> "", n |-> 0],
       [code |-> "I", n |-> 3],
       [code |-> "E", n |-> 5] >>

\* The gate the pairs denote, applied in order.
RECURSIVE Denoted(_, _)
Denoted(gate, pairs) ==
    IF pairs = <<>> THEN gate
    ELSE LET d == PairMeaning[pairs[1]]
         IN  Denoted(IF d.code = "" THEN gate ELSE [gate EXCEPT ![d.code] = d.n], Tail(pairs))

\* The first pairs of PairTexts, tried where messages are counted too.
ShortPairs == 4

\* Sequences of 1..n indices below k.
PairSeqs(k, n) == UNION {[1..len -> 1..k] : len \in 1..n}

\* The value made of the pairs: "pair:pair:..."
ValueOf(pairs) == Join([i \in 1..Len(pairs) |-> AllTexts[pairs[i]]], <<":">>)

ReturnStatus_configure(name, pairs) ==
    /\ IF ~IsGateOption(name)
       THEN /\ call' = Call("return_status", "configure", name, None,
                            ConfigGeneralError(name, "return_status"))
            /\ UNCHANGED <<quality_gate, expected_gate, skipped>>
       ELSE /\ quality_gate' = ReturnStatus_parse(quality_gate, ValueOf(pairs))
            /\ expected_gate' = Denoted(expected_gate, pairs)
            /\ skipped' = Cardinality({i \in 1..Len(pairs) : PairMeaning[pairs[i]].code = ""})
            /\ call' = Call("return_status", "configure", name, None, NoError)
    /\ UNCHANGED <<by_id_state, by_severity_state, return_status, counter, timer_state,
                   timer, json_state, file_stats_state, added, get_report_calls>>

\* The values tried: up to MaxPairs pairs of PairTexts, or any one pair.
GateInputs == PairSeqs(Len(PairTexts), MaxPairs) \cup PairSeqs(Len(AllTexts), 1)

NextGate ==
    \E name \in OptionNames, pairs \in GateInputs : ReturnStatus_configure(name, pairs)

SpecGate == Init /\ [][NextGate]_vars

(***************************************************************************)
(* ReturnStatusReport: counting and the return status.                     *)
(***************************************************************************)
\* The largest return status.
MaxStatus == 255

\* A faulty comparison: the sentinel -1 is compared like any threshold.
ExceedsAnyThreshold(threshold, count) == threshold < count

\* -1 < threshold < count
Exceeds(threshold, count) == -1 < threshold /\ threshold < count

\* A faulty excess: the whole count.
ExcessIsCount(threshold, count) == count

\* count - threshold
Excess(threshold, count) == count - threshold

\* A faulty end of get_report: the status is not capped.
NoClamp(status) == status

\* min(self.return_status, 255)
Clamp(status) == Min(status, MaxStatus)

\* The loop of get_report over severity_counter.items(), from return status rs.
RECURSIVE Accumulate(_, _, _)
Accumulate(items, gate, rs) ==
    IF items = <<>> THEN rs
    ELSE LET severity == items[1].k
             count == items[1].v
             threshold == IF SeverityValue(severity) \in DOMAIN gate
                          THEN gate[SeverityValue(severity)] ELSE 0
         IN  Accumulate(Tail(items), gate,
                        IF Exceeds(threshold, count) THEN rs + Excess(threshold, count) ELSE rs)

\* self.return_status after get_report.
ReturnStatus_status(items, gate, rs) == Clamp(Accumulate(items, gate, rs))

\* n consecutive add_message calls with messages of the severity of m (the
\* log added is not kept here: the count of each severity is in counter).
ReturnStatus_add_message(m, n) ==
    LET total == DictSum(counter)
    IN  /\ IF n = 1 THEN total % Burst < MaxSingles ELSE total < Burst
        /\ counter' = DictAdd(counter, m.severity, n)
        /\ call' = Call("return_status", "add_message", "", None, NoError)
        /\ UNCHANGED <<by_id_state, by_severity_state, return_status, quality_gate,
                       timer_state, timer, json_state, file_stats_state, history>>

ReturnStatus_get_report ==
    /\ get_report_calls < MaxReports
    /\ return_status' = ReturnStatus_status(counter, quality_gate, return_status)
    /\ get_report_calls' = get_report_calls + 1
    /\ call' = Call("return_status", "get_report", "", None, NoError)
    /\ UNCHANGED <<by_id_state, by_severity_state, counter, quality_gate, timer_state,
                   timer, json_state, file_stats_state, added, expected_gate, skipped>>

NextReturnStatus ==
    \/ \E m \in Messages, n \in {1, Burst} : ReturnStatus_add_message(m, n)
    \/ ReturnStatus_get_report
    \/ \E name \in OptionNames, pairs \in PairSeqs(ShortPairs, 1) :
          ReturnStatus_configure(name, pairs)

SpecReturnStatus == Init /\ [][NextReturnStatus]_vars

(***************************************************************************)
(* TimeTakenReport and RobocopVersionReport                                *)
(***************************************************************************)
\* f"{seconds:.3f}" of an elapsed time of ms milliseconds.
Seconds3f(ms) ==
    LET frac == ms % 1000
    IN  IntStr(ms \div 1000) \o <<".">>
        \o (IF frac < 10 THEN <<"0", "0">> ELSE IF frac < 100 THEN <<"0">> ELSE <<>>)
        \o NatStr(frac)

TimeTaken_text(start, now) ==
    <<"\n", "S", "c", "a", "n", " ", "f", "i", "n", "i", "s", "h", "e", "d", " ", "i", "n", " ">>
    \o Seconds3f(now - start) \o <<"s", ".">>

\* robocop.version.__version__
Version == <<"2", ".", "0", ".", "2">>

Version_text ==
    <<"\n", "R", "e", "p", "o", "r", "t", " ", "g", "e", "n", "e", "r", "a", "t", "e", "d", " ",
      "b", "y", " ", "R", "o", "b", "o", "c", "o", "p", " ", "v", "e", "r", "s", "i", "o", "n",
      ":", " ">> \o Version

\* Time passes.
Tick ==
    /\ timer < MaxClock
    /\ timer' = timer + 1
    /\ UNCHANGED <<by_id_state, by_severity_state, return_status_state, timer_state,
                   json_state, file_stats_state, call, history>>

TimeTaken_get_report ==
    /\ call' = Call("scan_timer", "get_report", "", Str(TimeTaken_text(start_time, timer)), NoError)
    /\ UNCHANGED <<by_id_state, by_severity_state, return_status_state, timer_state,
                   timer, json_state, file_stats_state, history>>

Version_get_report ==
    /\ call' = Call("version", "get_report", "", Str(Version_text), NoError)
    /\ UNCHANGED <<by_id_state, by_severity_state, return_status_state, timer_state,
                   timer, json_state, file_stats_state, history>>

(***************************************************************************)
(* All reports together, as the runner drives them: every message goes to  *)
(* every report.                                                           *)
(***************************************************************************)
Runner_add_message(m) ==
    /\ Len(added) < MaxFanOut
    /\ message_counter' = DictAdd(message_counter, m.fullname, 1)
    /\ severity_counter' = DictAdd(severity_counter, m.severity, 1)
    /\ counter' = DictAdd(counter, m.severity, 1)
    /\ issues' = JsonAppend(issues, m)
    /\ files_with_issues' = files_with_issues \cup {m.source}
    /\ call' = Call("", "add_message", "", None, NoError)
    /\ added' = Append(added, m)
    /\ UNCHANGED <<return_status, quality_gate, timer_state, timer, files_count,
                   get_report_calls, expected_gate, skipped>>

NextRunner ==
    \/ \E m \in Messages : Runner_add_message(m)
    \/ \E n \in 0..1 : FileStats_set_files_count(n)
    \/ Tick
    \/ \E r \in ReportNames \ {"return_status"}, name \in OptionNames : Report_configure(r, name)
    \/ \E name \in OptionNames : ReturnStatus_configure(name, <<1>>)
    \/ RulesById_get_report
    \/ RulesBySeverity_get_report
    \/ ReturnStatus_get_report
    \/ TimeTaken_get_report
    \/ Json_get_report
    \/ FileStats_get_report
    \/ Version_get_report

SpecRunner == Init /\ [][NextRunner]_vars

(***************************************************************************)
(* Properties of the return status.                                        *)
(***************************************************************************)
\* The occurrences of severity sev counted by the return_status report.
Occurrences(sev) == DictGet(counter, sev, 0)

\* The excess over their thresholds of the severities that have occurrences
\* and whose threshold satisfies Limited.
ExcessWhere(Limited(_)) ==
    LET part(sev) ==
            LET t == quality_gate[SeverityValue(sev)]
            IN  IF Occurrences(sev) > 0 /\ Limited(t) /\ Occurrences(sev) > t
                THEN Occurrences(sev) - t ELSE 0
    IN  part("ERROR") + part("WARNING") + part("INFO")

NotSentinel(t) == t # -1

NotNegative(t) == t >= 0

JustReported == call.report = "return_status" /\ call.op = "get_report"

C2_AsClaimed ==
    (JustReported /\ get_report_calls = 1)
        => return_status = Min(255, ExcessWhere(NotSentinel))

\* C2 amended: the first get_report sets the status to min(255, S), S the sum
\* of (count - threshold) over the severities whose threshold is not negative
\* and is exceeded by the count; a severity with any negative threshold adds 0.
C2_FirstReport ==
    (JustReported /\ get_report_calls = 1)
        => return_status = Min(255, ExcessWhere(NotNegative))

C2_Witness ==
    /\ JustReported
    /\ get_report_calls = 1
    /\ quality_gate["W"] = 290
    /\ Occurrences("WARNING") = 301
    /\ Occurrences("ERROR") = 1
    /\ quality_gate["E"] = 0
    /\ return_status = 12

\* A get_report call directly after a get_report call on the same report.
RepeatedGetReport ==
    /\ call.op = "get_report"
    /\ call'.op = "get_report"
    /\ call'.report = call.report
    /\ call.report # "scan_timer"
    /\ call.report = "return_status" => get_report_calls' = get_report_calls + 1

\* C3: on every report but scan_timer a get_report call that directly follows
\* a get_report call changes nothing of the accumulated state and gives the
\* same result; for return_status the result is the computed return status.
C3_Idempotent ==
    [][RepeatedGetReport =>
          /\ UNCHANGED <<by_id_state, by_severity_state, return_status_state,
                         timer_state, json_state, file_stats_state>>
          /\ call'.ret = call.ret]_vars

\* The counted severities whose threshold is not the sentinel -1.
LimitedItems ==
    SelectSeq(counter, LAMBDA item : quality_gate[SeverityValue(item.k)] # -1)

\* C4: get_report computes the status it would compute were the severities
\* with threshold -1 not counted at all: such a severity contributes 0
\* whatever its count.
C4_UnlimitedAddsNothing ==
    [][get_report_calls' = get_report_calls + 1 =>
          return_status' = Min(255, Accumulate(LimitedItems, quality_gate, return_status))]_vars

C4_Witness ==
    /\ JustReported
    /\ quality_gate["I"] = -1
    /\ Occurrences("INFO") = 300
    /\ Occurrences("ERROR") = 1
    /\ quality_gate["E"] = 0
    /\ get_report_calls = 1
    /\ return_status = 1

(***************************************************************************)
(* Properties of configure.                                                *)
(***************************************************************************)
\* C5: configure with quality_gate or quality_gates never raises; the gate is
\* the one the well-formed pairs denote, applied in order, each malformed
\* pair changing nothing and stopping nothing.
C5_GateParsing ==
    /\ quality_gate = expected_gate
    /\ (call.op = "configure" /\ call.report = "return_status"
           /\ call.name \in {"quality_gate", "quality_gates"}) => call.exc = NoError

\* After a value of three pairs of which two are malformed (as "e=1:w=abc:x=2"):
\* E is set, W and I are as they were by default.
C5_Witness ==
    /\ call.op = "configure"
    /\ call.exc = NoError
    /\ skipped = 2
    /\ quality_gate = [DefaultGate EXCEPT !["E"] = 1]

\* The option is one the report recognises.
Recognised(report, name) ==
    report = "return_status" /\ name \in {"quality_gate", "quality_gates"}

\* C6: configure with an option the report does not recognise raises a
\* configuration error naming the option and the report, and changes nothing
\* of any report's state, the quality gate included.
C6_UnknownOption ==
    [][(call'.op = "configure" /\ ~Recognised(call'.report, call'.name)) =>
          /\ call'.exc = [type |-> "ConfigGeneralError", param |-> call'.name,
                          report |-> call'.report]
          /\ UNCHANGED <<by_id_state, by_severity_state, return_status_state,
                         timer_state, json_state, file_stats_state>>]_vars

C6_Witness ==
    /\ call.op = "configure"
    /\ call.report = "return_status"
    /\ call.name = "threshold"
    /\ call.exc.type = "ConfigGeneralError"
    /\ quality_gate = DefaultGate
    /\ added # <<>>

(***************************************************************************)
(* Properties of the counting reports, stated over the messages added.     *)
(***************************************************************************)
\* The messages added that satisfy P.
CountAdded(P(_)) == Cardinality({i \in 1..Len(added) : P(added[i])})

Fullnames == {m.fullname : m \in Messages}

C7_Counts ==
    /\ DictSum(message_counter) = Len(added)
    /\ DictKeys(message_counter) \subseteq Fullnames
    /\ \A name \in Fullnames :
          DictGet(message_counter, name, 0) = CountAdded(LAMBDA m : m.fullname = name)

\* C7: the counts of rules_by_id sum to the number of add_message calls, each
\* rule's count is the number of added messages of that full name, and no
\* count ever decreases, get_report calls in between included.
C7_CountsById ==
    [][/\ C7_Counts'
       /\ \A name \in Fullnames :
             DictGet(message_counter', name, 0) >= DictGet(message_counter, name, 0)]_vars

C7_Witness ==
    /\ call.report = "rules_by_id"
    /\ call.op = "get_report"
    /\ Len(added) = 3
    /\ DictGet(message_counter, <<"W", "1">>, 0) = 2
    /\ DictGet(message_counter, <<"E", "2", "2">>, 0) = 1

\* The severities of the messages of log, in the order first met.
RECURSIVE FirstMet(_)
FirstMet(log) ==
    IF log = <<>> THEN <<>>
    ELSE LET before == FirstMet(SubSeq(log, 1, Len(log) - 1))
             sev == log[Len(log)].severity
         IN  IF \E i \in 1..Len(before) : before[i] = sev THEN before ELSE Append(before, sev)

\* The sentence for the messages added.
Sentence ==
    LET total == Len(added)
        met == FirstMet(added)
        n(sev) == CountAdded(LAMBDA m : m.severity = sev)
        part(i) == NatStr(n(met[i])) \o <<" ">> \o SeverityName(met[i])
                   \o (IF n(met[i]) = 1 THEN <<>> ELSE <<"s">>)
        list == Join([i \in 1..Len(met) |-> part(i)], <<",", " ">>) \o <<".">>
    IN  IF total = 0
        THEN <<"\n", "F", "o", "u", "n", "d", " ", "0", " ", "i", "s", "s", "u", "e", "s", ".">>
        ELSE IF total = 1
        THEN <<"\n", "F", "o", "u", "n", "d", " ", "1", " ", "i", "s", "s", "u", "e", ":", " ">> \o list
        ELSE <<"\n", "F", "o", "u", "n", "d", " ">> \o NatStr(total)
             \o <<" ", "i", "s", "s", "u", "e", "s", ":", " ">> \o list

\* C8: the per-severity counts sum to the number of messages added, and
\* get_report returns the sentence stating that total: "Found 0 issues.",
\* "Found 1 issue: ..." or "Found <total> issues: ...", listing each severity
\* met, in the order first met, with its own count.
C8_SeveritySentence ==
    /\ DictSum(severity_counter) = Len(added)
    /\ (call.report = "rules_by_error_type" /\ call.op = "get_report")
          => call.ret = Str(Sentence)

C8_Witness ==
    /\ call.report = "rules_by_error_type"
    /\ call.op = "get_report"
    /\ Len(added) = 4
    /\ FirstMet(added) = <<"WARNING", "ERROR", "INFO">>

\* C9: issues holds one entry per add_message call, the i-th the serialized
\* form of the i-th message added, duplicates kept; get_report returns None.
C9_JsonIssues ==
    /\ Len(issues) = Len(added)
    /\ \A i \in 1..Len(added) : issues[i] = to_json(added[i])
    /\ (call.report = "json_report" /\ call.op = "get_report") => call.ret = None

C9_Witness ==
    /\ call.report = "json_report"
    /\ call.op = "get_report"
    /\ Len(added) = 3
    /\ added[1] = added[3]
    /\ added[1] # added[2]

\* " file" or " files"
Files(n) == <<" ", "f", "i", "l", "e">> \o (IF n = 1 THEN <<>> ELSE <<"s">>)

\* The distinct source files of the messages added.
SourcesAdded == {added[i].source : i \in 1..Len(added)}

\* The sentence for N processed files of which M had messages.
FileSentence(N, M) ==
    IF N = 0
    THEN <<"\n", "N", "o", " ", "f", "i", "l", "e", "s", " ", "w", "e", "r", "e", " ",
           "p", "r", "o", "c", "e", "s", "s", "e", "d", ".">>
    ELSE <<"\n", "P", "r", "o", "c", "e", "s", "s", "e", "d", " ">> \o NatStr(N) \o Files(N)
         \o (IF M = 0
             THEN <<" ", "b", "u", "t", " ", "n", "o", " ", "i", "s", "s", "u", "e", "s", " ",
                    "w", "e", "r", "e", " ", "f", "o", "u", "n", "d", ".">>
             ELSE <<" ", "f", "r", "o", "m", " ", "w", "h", "i", "c", "h", " ">> \o NatStr(M)
                  \o Files(M)
                  \o <<" ", "c", "o", "n", "t", "a", "i", "n", "e", "d", " ", "i", "s", "s", "u",
                       "e", "s", ".">>)

\* C10: get_report of file_stats returns the sentence for the processed-file
\* count set by the runner and the number of distinct source files among the
\* messages added, each "file" singular exactly when its count is 1;
\* add_message never changes the processed-file count.
C10_FileStats ==
    [][/\ (call'.report = "file_stats" /\ call'.op = "get_report")
             => call'.ret = Str(FileSentence(files_count', Cardinality(SourcesAdded')))
       /\ Len(added') > Len(added) => files_count' = files_count]_vars

C10_Witness ==
    /\ call.report = "file_stats"
    /\ call.op = "get_report"
    /\ files_count = 2
    /\ Cardinality(SourcesAdded) = 1
    /\ Len(added) = 3

====
